---------------------------- MODULE Spec2Model ----------------------------
(***************************************************************************)
(* A model of the JARVIS assistant's command pipeline:                     *)
(*   src/utils/language_manager.py   language detection and translations   *)
(*   src/core/jarvis_brain.py        intent classification, AI delegate,   *)
(*                                   conversation history                  *)
(*   src/core/system_controller.py   system-action executor                *)
(*   src/core/hardware_controller.py hardware-action executor              *)
(*   src/core/learning_engine.py     interaction log                       *)
(*   src/jarvis_main.py              the orchestrator                      *)
(*                                                                         *)
(* Text is a sequence of Unicode code points, so that lower-casing,        *)
(* substring tests and the regular expressions of the language detector    *)
(* are computed the way Python computes them.                              *)
(***************************************************************************)
EXTENDS Integers, Sequences, FiniteSets, Bags, TLC

VARIABLES
    current_language,      \* AdvancedJARVIS.current_language
    lm_language,           \* AdvancedJARVIS.language_manager.current_language
    commands_processed,    \* AdvancedJARVIS.commands_processed
    successful_operations, \* AdvancedJARVIS.successful_operations
    brain_initialized,     \* JARVISBrain.initialized (system_prompt exists)
    brain_language,        \* JARVISBrain.language_manager.current_language
    conversation_history,  \* JARVISBrain.conversation_history
    total_queries,         \* JARVISBrain.total_queries
    successful_queries,    \* JARVISBrain.successful_queries
    learning_enabled,      \* LearningEngine.learning_enabled
    user_preferences,      \* LearningEngine.user_preferences
    user_interactions,     \* LearningEngine.user_interactions
    command_frequency,     \* LearningEngine.command_frequency (a Counter)
    recorded,              \* history: every interaction appended so far
    now,                   \* the wall clock, in ticks
    history_file,          \* the file data/conversation_history.json
    interactions_file,     \* the file data/user_interactions.json
    models_file,           \* the file data/learning_models.pkl
    preferences_file,      \* the file data/user_preferences.json
    monitoring_active,     \* SystemController.monitoring_active (the stop flag)
    monitor_thread,        \* SystemController.monitor_thread: 0 is None
    loops,                 \* the position of every loop thread started so far
    stopper,               \* the position of the caller of stop_monitoring
    authenticated,         \* SecurityManager.authenticated
    auth_attempts,         \* SecurityManager.auth_attempts
    last_auth_attempt,     \* SecurityManager.last_auth_attempt
    config,                \* ConfigManager.config: section -> dictionary
    default_config,        \* ConfigManager.default_config: section -> dictionary
    config_shared,         \* the sections whose dictionary in config is the
                           \* very object held by default_config
    config_file,           \* the file config/jarvis_config.json
    threads,               \* the threads in flight: their position and locals
    call                   \* the last completed call: its inputs and result

vars == << current_language, lm_language, commands_processed,
           successful_operations, brain_initialized, brain_language,
           conversation_history, total_queries, successful_queries,
           learning_enabled, user_preferences, user_interactions,
           command_frequency, recorded, models_file, preferences_file,
           now, history_file, interactions_file, monitoring_active,
           monitor_thread, loops, stopper, authenticated, auth_attempts,
           last_auth_attempt, config, default_config, config_shared,
           config_file, threads, call >>

orchestratorVars == << current_language, lm_language, commands_processed,
                       successful_operations >>
brainVars == << brain_initialized, brain_language, conversation_history,
                total_queries, successful_queries >>
learningVars == << learning_enabled, user_preferences, user_interactions, command_frequency,
                  recorded, now >>
storageVars == << history_file, interactions_file, models_file,
                 preferences_file >>
loopVars == << monitoring_active, monitor_thread, loops, stopper >>
securityVars == << authenticated, auth_attempts, last_auth_attempt >>
configVars == << config, default_config, config_shared, config_file >>
serviceVars == << loopVars, securityVars, configVars >>

-----------------------------------------------------------------------------
(* Bounds of the model *)

\* words per input text
MaxWords == 3
\* calls of AdvancedJARVIS.process_command explored
MaxCommands == 2
\* calls of JARVISBrain.process_command explored
MaxQueries == 12
\* calls of LearningEngine.learn_from_interaction explored after a starting log
MaxInteractionCalls == 60
\* loop threads a component starts
MaxLoops == 3
\* the total of command_frequency up to which a new engine is started
MaxFrequency == 24
\* the clock, in seconds, up to which authenticate is called
MaxClock == 1200

-----------------------------------------------------------------------------
(* Text: sequences of code points *)

Min(S) == CHOOSE x \in S : \A y \in S : x <= y

\* str.lower() on one character (ASCII letters; Devanagari has no case)
Lower(c) == IF c \in 65..90 THEN c + 32 ELSE c

\* str.lower()
LowerText(t) == [i \in DOMAIN t |-> Lower(t[i])]

\* `word in text`: substring containment
Contains(text, word) ==
    \E i \in 1..(Len(text) - Len(word) + 1) :
        SubSeq(text, i, i + Len(word) - 1) = word

\* the words of the input vocabulary
W_shutdown == <<115, 104, 117, 116, 100, 111, 119, 110>>   \* "shutdown"
W_Open     == <<79, 112, 101, 110>>                        \* "Open"
W_start    == <<115, 116, 97, 114, 116>>                   \* "start"
W_what     == <<119, 104, 97, 116>>                        \* "what"
W_status   == <<115, 116, 97, 116, 117, 115>>              \* "status"
W_show     == <<115, 104, 111, 119>>                       \* "show"
W_i        == <<105>>                                      \* "i"
W_namak    == <<2344, 2350, 2325>>                         \* "नमक"
W_kab      == <<2325, 2348>>                               \* "कब"
W_kya      == <<2325, 2381, 2351, 2366>>                   \* "क्या"

Vocabulary == { W_shutdown, W_Open, W_start, W_what, W_status, W_show,
                W_i, W_namak, W_kab, W_kya }

\* the texts of n words joined by single spaces
RECURSIVE TextsOf(_)
TextsOf(n) ==
    IF n = 0 THEN { <<>> }
    ELSE IF n = 1 THEN Vocabulary
    ELSE { t \o <<32>> \o w : t \in TextsOf(n - 1), w \in Vocabulary }

\* every input text: the empty text and 1..MaxWords words
Texts == UNION { TextsOf(n) : n \in 0..MaxWords }

-----------------------------------------------------------------------------
(* LanguageManager  (src/utils/language_manager.py) *)

supported_languages == { "english", "hindi" }

\* the arguments given to set_language / switch_language
LanguageArgs == { "english", "hindi", "Hindi", "en", "hi", "french" }

\* str.lower() on a language argument
LowerTag(l) == IF l = "Hindi" THEN "hindi" ELSE l

\* [ऀ-ॿ]
IsDevanagari(c) == c \in 2304..2431

\* [a-zA-Z]
IsLatin(c) == c \in 65..90 \/ c \in 97..122

\* \w of Python's re on str: alphanumeric characters and the underscore.
\* Devanagari letters and digits are word characters, the combining vowel
\* signs, virama, anusvara (categories Mn, Mc) and the dandas are not.
IsWordChar(c) ==
    \/ c \in 48..57 \/ c \in 65..90 \/ c = 95 \/ c \in 97..122
    \/ c \in 2308..2361 \/ c = 2365 \/ c = 2384 \/ c \in 2392..2401
    \/ c \in 2406..2415 \/ c \in 2417..2431

\* \b between position i and position i + 1 of text (i in 0..Len(text))
WordBoundary(text, i) ==
    (i >= 1 /\ IsWordChar(text[i])) # (i < Len(text) /\ IsWordChar(text[i + 1]))

\* \b word \b matches at position i (re.IGNORECASE)
MatchAt(text, i, word) ==
    /\ i + Len(word) - 1 <= Len(text)
    /\ \A j \in 1..Len(word) : Lower(text[i + j - 1]) = Lower(word[j])
    /\ WordBoundary(text, i - 1)
    /\ WordBoundary(text, i + Len(word) - 1)

\* len(re.findall(r'\b(w1|w2|...)\b', text)): the scan goes left to right,
\* takes the first alternative that matches and resumes after the match
RECURSIVE CountWordsFrom(_, _, _)
CountWordsFrom(text, words, i) ==
    IF i > Len(text) THEN 0
    ELSE LET ks == { k \in DOMAIN words : MatchAt(text, i, words[k]) }
         IN  IF ks = {} THEN CountWordsFrom(text, words, i + 1)
             ELSE 1 + CountWordsFrom(text, words, i + Len(words[Min(ks)]))

CountWords(text, words) == CountWordsFrom(text, words, 1)

\* len(re.findall(r'[...]', text)) for the Devanagari character class
CountDevanagari(text) == Cardinality({ i \in DOMAIN text : IsDevanagari(text[i]) })

\* len(re.findall(r'[a-zA-Z]', text))
CountLatin(text) == Cardinality({ i \in DOMAIN text : IsLatin(text[i]) })

\* language_patterns['hindi'][1]: common Hindi words
HindiCommonWords ==
    << <<2325, 2381, 2351, 2366>>,
       <<2325, 2376, 2360, 2375>>,
       <<2325, 2361, 2366, 2305>>,
       <<2325, 2348>>,
       <<2325, 2381, 2351, 2379, 2306>>,
       <<2332, 2366, 2352, 2381, 2357, 2367, 2360>>,
       <<2360, 2367, 2360, 2381, 2335, 2350>>,
       <<2347, 2366, 2311, 2354>>,
       <<2326, 2379, 2354, 2379>>,
       <<2348, 2306, 2342>>,
       <<2325, 2352, 2379>>,
       <<2342, 2367, 2326, 2366, 2323>>,
       <<2348, 2340, 2366, 2323>> >>

\* language_patterns['hindi'][2]: Hindi question words
HindiQuestionWords ==
    << <<2310, 2346>>,
       <<2350, 2376, 2306>>,
       <<2361, 2350>>,
       <<2351, 2361>>,
       <<2357, 2361>>,
       <<2325, 2380, 2344>>,
       <<2325, 2367, 2360, 2325, 2366>>,
       <<2325, 2367, 2360, 2325, 2379>> >>

\* language_patterns['english'][1]: what how where when why jarvis system
\* file open close show tell the and or but
EnglishCommonWords ==
    << <<119, 104, 97, 116>>,
       <<104, 111, 119>>,
       <<119, 104, 101, 114, 101>>,
       <<119, 104, 101, 110>>,
       <<119, 104, 121>>,
       <<106, 97, 114, 118, 105, 115>>,
       <<115, 121, 115, 116, 101, 109>>,
       <<102, 105, 108, 101>>,
       <<111, 112, 101, 110>>,
       <<99, 108, 111, 115, 101>>,
       <<115, 104, 111, 119>>,
       <<116, 101, 108, 108>>,
       <<116, 104, 101>>,
       <<97, 110, 100>>,
       <<111, 114>>,
       <<98, 117, 116>> >>

\* language_patterns['english'][2]: you i we this that who whose whom
EnglishQuestionWords ==
    << <<121, 111, 117>>,
       <<105>>,
       <<119, 101>>,
       <<116, 104, 105, 115>>,
       <<116, 104, 97, 116>>,
       <<119, 104, 111>>,
       <<119, 104, 111, 115, 101>>,
       <<119, 104, 111, 109>> >>

\* scores['hindi'] without the Devanagari character pattern
HindiScoreWordsOnly(text) ==
    CountWords(text, HindiCommonWords) + CountWords(text, HindiQuestionWords)

\* scores['hindi'] of detect_language for the lower-cased text
HindiScore(text) ==
    CountDevanagari(text) + CountWords(text, HindiCommonWords)
        + CountWords(text, HindiQuestionWords)

\* scores['english'] of detect_language for the lower-cased text
EnglishScore(text) ==
    CountLatin(text) + CountWords(text, EnglishCommonWords)
        + CountWords(text, EnglishQuestionWords)

\* detect_language: determine language based on scores
LanguageOfScores(hindi, english, current) ==
    IF hindi > english THEN "hindi"
    ELSE IF english > hindi THEN "english"
    ELSE current

\* detect_language with ties resolved to english
DetectLanguageTieEnglish(text, current) ==
    IF text = <<>> THEN current
    ELSE LET t == LowerText(text)
         IN  IF HindiScore(t) > EnglishScore(t) THEN "hindi" ELSE "english"

\* LanguageManager.detect_language
DetectLanguage(text, current) ==
    IF text = <<>> THEN current
    ELSE LanguageOfScores(HindiScore(LowerText(text)),
                          EnglishScore(LowerText(text)), current)

\* LanguageManager.set_language: the new current_language
SetLanguage(current, language) ==
    IF LowerTag(language) \in supported_languages THEN LowerTag(language)
    ELSE current

\* the keys of the translation tables that the pipeline reads
TranslationKeys == { "error_processing", "api_error", "ai_error",
                     "language_switched", "invalid_language" }

\* LanguageManager.translations: both tables hold every key, no entry is empty
Translations == [ l \in supported_languages |->
                    [ k \in TranslationKeys |-> << l, k >> ] ]

\* LanguageManager.get_text(key) with the manager's current language
GetText(key, current) ==
    IF current \in DOMAIN Translations /\ key \in DOMAIN Translations[current]
    THEN Translations[current][key]
    ELSE IF key \in DOMAIN Translations["english"]
    THEN Translations["english"][key]
    ELSE << key >>

-----------------------------------------------------------------------------
(* JARVISBrain  (src/core/jarvis_brain.py) *)

\* _analyze_intent: ['shutdown', 'restart', 'sleep', 'lock']
SystemControlKeywords ==
    { <<115, 104, 117, 116, 100, 111, 119, 110>>,
      <<114, 101, 115, 116, 97, 114, 116>>,
      <<115, 108, 101, 101, 112>>,
      <<108, 111, 99, 107>> }

\* _analyze_intent: ['open', 'create', 'delete', 'file']
FileOperationKeywords ==
    { <<111, 112, 101, 110>>,
      <<99, 114, 101, 97, 116, 101>>,
      <<100, 101, 108, 101, 116, 101>>,
      <<102, 105, 108, 101>> }

\* _analyze_intent: ['launch', 'start', 'close', 'app']
ApplicationControlKeywords ==
    { <<108, 97, 117, 110, 99, 104>>,
      <<115, 116, 97, 114, 116>>,
      <<99, 108, 111, 115, 101>>,
      <<97, 112, 112>> }

\* _analyze_intent: ['what', 'how', 'when', 'where', 'why']
InformationRequestKeywords ==
    { <<119, 104, 97, 116>>,
      <<104, 111, 119>>,
      <<119, 104, 101, 110>>,
      <<119, 104, 101, 114, 101>>,
      <<119, 104, 121>> }

\* _analyze_intent: ['status', 'health', 'performance']
SystemStatusKeywords ==
    { <<115, 116, 97, 116, 117, 115>>,
      <<104, 101, 97, 108, 116, 104>>,
      <<112, 101, 114, 102, 111, 114, 109, 97, 110, 99, 101>> }

\* any(word in command_lower for word in keywords)
AnyKeyword(command_lower, keywords) ==
    \E word \in keywords : Contains(command_lower, word)

\* an intent; the confidence is in tenths (9 is 0.9)
Intent(type, confidence) ==
    [ type |-> type, confidence |-> confidence, parameters |-> "{}" ]

\* _analyze_intent testing the information-request keywords first
AnalyzeIntentInformationFirst(command) ==
    LET command_lower == LowerText(command)
    IN  IF AnyKeyword(command_lower, InformationRequestKeywords)
        THEN Intent("information_request", 7)
        ELSE IF AnyKeyword(command_lower, SystemControlKeywords)
        THEN Intent("system_control", 9)
        ELSE IF AnyKeyword(command_lower, FileOperationKeywords)
        THEN Intent("file_operation", 8)
        ELSE IF AnyKeyword(command_lower, ApplicationControlKeywords)
        THEN Intent("application_control", 8)
        ELSE IF AnyKeyword(command_lower, SystemStatusKeywords)
        THEN Intent("system_status", 9)
        ELSE Intent("general", 5)

\* JARVISBrain._analyze_intent
AnalyzeIntent(command) ==
    LET command_lower == LowerText(command)
    IN  IF AnyKeyword(command_lower, SystemControlKeywords)
        THEN Intent("system_control", 9)
        ELSE IF AnyKeyword(command_lower, FileOperationKeywords)
        THEN Intent("file_operation", 8)
        ELSE IF AnyKeyword(command_lower, ApplicationControlKeywords)
        THEN Intent("application_control", 8)
        ELSE IF AnyKeyword(command_lower, InformationRequestKeywords)
        THEN Intent("information_request", 7)
        ELSE IF AnyKeyword(command_lower, SystemStatusKeywords)
        THEN Intent("system_status", 9)
        ELSE Intent("general", 5)

\* JARVISBrain._check_system_commands; required = FALSE stands for None
CheckSystemCommands(command, intent) ==
    IF intent.type \in { "system_control", "file_operation",
                         "application_control", "system_status" }
    THEN [ required |-> TRUE, type |-> intent.type, command |-> command,
           parameters |-> intent.parameters ]
    ELSE [ required |-> FALSE ]

\* the context passed by a caller that gives none
NoContext == [ present |-> FALSE ]

\* conversation_history[-5:]
RecentHistory(history) ==
    IF Len(history) > 5 THEN SubSeq(history, Len(history) - 4, Len(history))
    ELSE history

\* JARVISBrain._prepare_messages
PrepareMessages(command, context, intent, history) ==
    << [ role |-> "system", content |-> << "system_prompt" >> ] >>
    \o RecentHistory(history)
    \o ( IF context.present
         THEN << [ role |-> "system",
                   content |-> << "context_info", context.language, intent.type >> ] >>
         ELSE << >> )
    \o << [ role |-> "user", content |-> command ] >>

\* the outcomes of the request to the text-generation service:
\* HTTP 200 with a reply, another HTTP status, or an exception (timeout,
\* connection error, malformed body)
AIOutcomes == { "ok", "http_error", "transport_error" }

\* the reply of the text-generation service
AIReply == << "ai_reply" >>

\* _get_ai_response posting again after a failed request
RequestsPostedRetrying(outcome) == IF outcome = "ok" THEN 1 ELSE 2

\* JARVISBrain._get_ai_response: the requests it posts to the service
RequestsPosted(outcome) == 1

\* JARVISBrain._get_ai_response: the text it returns
GetAIResponse(outcome, language) ==
    IF outcome = "ok" THEN AIReply
    ELSE IF outcome = "http_error" THEN GetText("api_error", language)
    ELSE GetText("ai_error", language)

\* the dataclass AIResponse: its fields (and nothing else: no get, no item
\* access)
AIResponseAttributes ==
    { "text", "confidence", "requires_system_action", "requires_hardware_action",
      "system_command", "hardware_command", "parameters", "context", "success" }

\* AIResponse(text, confidence, ...) with the defaults of the dataclass;
\* system_result and hardware_result are the keys the orchestrator adds
AIResponse(text, confidence, context, success) ==
    [ kind |-> "AIResponse", text |-> text, confidence |-> confidence,
      requires_system_action |-> FALSE, requires_hardware_action |-> FALSE,
      system_command |-> "None", hardware_command |-> "None",
      parameters |-> "None", context |-> context, success |-> success,
      system_result |-> "None", hardware_result |-> "None" ]

\* JARVISBrain._process_ai_response
ProcessAIResponse(ai_text, system_action, context) ==
    LET response == AIResponse(ai_text, 8, context, TRUE)
    IN  IF system_action.required
        THEN [ response EXCEPT !.requires_system_action = TRUE,
                               !.system_command = system_action.type,
                               !.parameters = system_action.parameters ]
        ELSE response

\* len(self.conversation_history) > 20, conversation_history[-20:]
HistoryLimit == 20

\* JARVISBrain._update_conversation_history, never trimming
UpdateConversationHistoryNoTrim(history, command, response) ==
    history \o << [ role |-> "user", content |-> command ],
                  [ role |-> "assistant", content |-> response.text ] >>

\* JARVISBrain._update_conversation_history
UpdateConversationHistory(history, command, response) ==
    LET extended == history \o << [ role |-> "user", content |-> command ],
                                  [ role |-> "assistant", content |-> response.text ] >>
    IN  IF Len(extended) > HistoryLimit
        THEN SubSeq(extended, Len(extended) - HistoryLimit + 1, Len(extended))
        ELSE extended

\* JARVISBrain._load_conversation_history: the history after loading
LoadConversationHistory(history) ==
    IF history_file.exists THEN history_file.content ELSE history

\* JARVISBrain.process_command: the response it returns and the state it
\* leaves.  _prepare_messages reads self.system_prompt, which exists only
\* after initialize(): before that the call ends in the except clause.
BrainProcessCommand(command, context, outcome) ==
    IF ~brain_initialized
    THEN [ response |-> AIResponse(GetText("error_processing", brain_language),
                                   0, NoContext, FALSE),
           messages |-> << >>,
           requested |-> FALSE,
           requests |-> 0,
           stages |-> << "classify" >>,
           history |-> conversation_history,
           total |-> total_queries + 1,
           successful |-> successful_queries ]
    ELSE LET intent == AnalyzeIntent(command)
             system_action == CheckSystemCommands(command, intent)
             messages == PrepareMessages(command, context, intent,
                                         conversation_history)
             ai_response == GetAIResponse(outcome, brain_language)
             response == ProcessAIResponse(ai_response, system_action, context)
         IN  [ response |-> response,
               messages |-> messages,
               requested |-> TRUE,
               requests |-> RequestsPosted(outcome),
               stages |-> << "classify", "generate", "history_record" >>,
               history |-> UpdateConversationHistory(conversation_history,
                                                     command, response),
               total |-> total_queries + 1,
               successful |-> IF response.success THEN successful_queries + 1
                              ELSE successful_queries ]

-----------------------------------------------------------------------------
(* SystemController and HardwareController: the action executors *)

\* the public methods that class SystemController defines
SystemControllerMethods ==
    { "initialize", "execute_command", "get_system_state",
      "get_detailed_stats", "start_monitoring", "stop_monitoring", "shutdown" }

\* parameters.get('action', ''); "{}" is the empty dictionary
ParameterAction(parameters) ==
    IF parameters = "{}" \/ parameters = "None" THEN ""
    ELSE parameters.action

\* the confirmation of SystemController._shutdown_system
ShutdownConfirmation == << "System shutdown scheduled in ", 60, " seconds, Sir." >>

\* SystemController._handle_system_control, the shutdown command succeeding
HandleSystemControl(parameters) ==
    IF ParameterAction(parameters) = "shutdown" THEN ShutdownConfirmation
    ELSE << "Unknown system control action: ", ParameterAction(parameters) >>

\* SystemController.execute_command.  The brain passes no parameters, so each
\* handler takes its default branch; a handler that raises is caught inside
\* execute_command and reported as a string.
SystemExecuteCommand(command, parameters, fails) ==
    IF fails THEN << "Error executing command: ", "exception" >>
    ELSE IF command = "system_control"
    THEN HandleSystemControl(parameters)
    ELSE IF command = "file_operation"
    THEN << "Unknown file operation: ", "" >>
    ELSE IF command = "application_control"
    THEN << "Unknown application action: ", "" >>
    ELSE IF command = "system_status"
    THEN << "System Status Report" >>
    ELSE << "Unknown system command: ", command >>

\* HardwareController.execute_command
HardwareExecuteCommand(command, parameters, fails) ==
    IF fails THEN << "Error executing command: ", "exception" >>
    ELSE IF command = "get_status" THEN << "Hardware Status Report" >>
    ELSE IF command = "get_temperatures" THEN << "Temperature Information" >>
    ELSE IF command = "get_performance" THEN << "Performance Information" >>
    ELSE IF command = "optimize_performance" THEN << "Performance optimized" >>
    ELSE << "Unknown hardware command: ", command >>

-----------------------------------------------------------------------------
(* LearningEngine  (src/core/learning_engine.py) *)

\* len(self.user_interactions) > 10000, user_interactions[-10000:]
InteractionLimit == 10000

\* LearningEngine.user_preferences after construction: the empty dictionary;
\* a key that is absent reads as << >> (common_commands) or "None"
NoPreferences == [ common_commands |-> << >>, preferred_language |-> "None" ]

\* the interaction record built by learn_from_interaction; the context's
\* language is getattr(self, 'current_language', 'english'), and the engine
\* has no such attribute
InteractionAt(command, response, feedback, time, session_length) ==
    [ timestamp |-> time, command |-> command, response |-> response,
      feedback |-> feedback,
      context |-> [ language |-> "english",
                    session_length |-> session_length ] ]

\* the interaction record of a call made in the current state
Interaction(command, response, feedback) ==
    InteractionAt(command, response, feedback, now, Len(user_interactions))

\* LearningEngine._update_models: the new command_frequency
UpdateModels(frequency, interaction) ==
    frequency (+) SetToBag({ LowerText(interaction.command) })

\* the trimming of learn_from_interaction keeping the oldest entries
TrimInteractionsKeepOldest(interactions) ==
    IF Len(interactions) > InteractionLimit
    THEN SubSeq(interactions, 1, InteractionLimit)
    ELSE interactions

\* learn_from_interaction: limit interaction history
TrimInteractions(interactions) ==
    IF Len(interactions) > InteractionLimit
    THEN SubSeq(interactions, Len(interactions) - InteractionLimit + 1,
                Len(interactions))
    ELSE interactions

\* the lengths of the log with which the engine is observed: empty, and one
\* short of the limit
PriorLogLengths == { 0, InteractionLimit - 1 }

\* LearningEngine.adaptation_threshold
adaptation_threshold == 10

\* the lengths of the log a started engine has loaded: empty, one short of
\* the adaptation threshold, and the 50 of _update_preferences
LoadedLogLengths == { 0, adaptation_threshold - 1, 50 }

\* LearningEngine.learn_from_interaction: the state it leaves
LearnFromInteraction(command, response, feedback) ==
    IF ~learning_enabled
    THEN [ interactions |-> user_interactions,
           frequency |-> command_frequency,
           recorded |-> recorded ]
    ELSE LET interaction == Interaction(command, response, feedback)
         IN  [ interactions |-> TrimInteractions(Append(user_interactions,
                                                        interaction)),
               frequency |-> UpdateModels(command_frequency, interaction),
               recorded |-> Append(recorded, interaction) ]

-----------------------------------------------------------------------------
(* AdvancedJARVIS  (src/jarvis_main.py) *)

\* the stages of process_command at which a collaborator may raise
Stages == { "language", "context", "brain", "system", "hardware", "learning" }

\* what the environment does during one process_command:
\*   ai            the outcome of the request to the text-generation service
\*   raises        the stage whose collaborator raises out of its call, if any
\*   system_fails  the system executor's handler fails
Environments ==
    [ ai : AIOutcomes, raises : Stages \cup { "none" }, system_fails : BOOLEAN ]

\* AdvancedJARVIS._get_environment_context calls get_system_load() and
\* get_active_applications() on the system controller
GetEnvironmentContextRaises ==
    \/ "get_system_load" \notin SystemControllerMethods
    \/ "get_active_applications" \notin SystemControllerMethods

\* AdvancedJARVIS._analyze_context raises
AnalyzeContextRaises(env) ==
    env.raises = "context" \/ GetEnvironmentContextRaises

\* AdvancedJARVIS._analyze_context: the context record
AnalyzeContext(language) == [ present |-> TRUE, language |-> language ]

\* the dictionary of the except clause with success left true
ErrorResponseSuccess(language, error) ==
    [ kind |-> "dict", text |-> GetText("error_processing", language),
      success |-> TRUE, error |-> error,
      system_result |-> "None", hardware_result |-> "None" ]

\* the dictionary returned by the except clause of process_command
ErrorResponse(language, error) ==
    [ kind |-> "dict", text |-> GetText("error_processing", language),
      success |-> FALSE, error |-> error,
      system_result |-> "None", hardware_result |-> "None" ]

\* no response: the call raised
NoResponse == [ kind |-> "None" ]

\* process_command without its except clause: the exception propagates
ExceptClausePropagates(language, error) ==
    [ raised |-> TRUE, response |-> NoResponse ]

\* the except clause of process_command
ExceptClause(language, error) ==
    [ raised |-> FALSE, response |-> ErrorResponse(language, error) ]

\* the state of the brain and of the learning engine as they are
BrainUntouched ==
    [ response |-> NoResponse, messages |-> << >>, requested |-> FALSE,
      requests |-> 0, stages |-> << >>,
      history |-> conversation_history, total |-> total_queries,
      successful |-> successful_queries ]
LearningUntouched ==
    [ interactions |-> user_interactions, frequency |-> command_frequency,
      recorded |-> recorded ]

\* AdvancedJARVIS.learning_mode, set at construction
learning_mode == TRUE

\* process_command ends in its except clause
Failure(language, lm, brain, system_invoked, hardware_invoked, error, stages) ==
    [ language |-> language, lm |-> lm, brain |-> brain, stages |-> stages,
      learning |-> LearningUntouched,
      system_invoked |-> system_invoked, hardware_invoked |-> hardware_invoked,
      exception |-> error, successful |-> FALSE,
      raised |-> ExceptClause(lm, error).raised,
      response |-> ExceptClause(lm, error).response ]

\* process_command reaches its return statement
Success(command, language, lm, brain, system_invoked, hardware_invoked, response, stages) ==
    [ language |-> language, lm |-> lm, brain |-> brain, stages |-> stages,
      learning |-> IF learning_mode
                   THEN LearnFromInteraction(command, response, "None")
                   ELSE LearningUntouched,
      system_invoked |-> system_invoked, hardware_invoked |-> hardware_invoked,
      exception |-> "None", successful |-> TRUE,
      raised |-> FALSE, response |-> response ]

\* process_command from the dispatch on: response.get(...) needs a get
\* method, which the dataclass AIResponse does not have
Dispatch(command, env, language, lm, brain) ==
    LET response == brain.response
        reached == << "language_detect", "context_build" >> \o brain.stages
                       \o << "dispatch" >>
    IN  IF "get" \notin AIResponseAttributes
        THEN Failure(language, lm, brain, FALSE, FALSE, "AttributeError", reached)
        ELSE IF response.requires_system_action /\ env.raises = "system"
        THEN Failure(language, lm, brain, TRUE, FALSE, "Exception", reached)
        ELSE LET with_system ==
                     IF response.requires_system_action
                     THEN [ response EXCEPT !.system_result =
                                SystemExecuteCommand(response.system_command,
                                                     response.parameters,
                                                     env.system_fails) ]
                     ELSE response
                 system_invoked == response.requires_system_action
             IN  IF response.requires_hardware_action /\ env.raises = "hardware"
                 THEN Failure(language, lm, brain, system_invoked, TRUE,
                              "Exception", reached)
                 ELSE LET with_hardware ==
                              IF response.requires_hardware_action
                              THEN [ with_system EXCEPT !.hardware_result =
                                         HardwareExecuteCommand(
                                             response.hardware_command,
                                             response.parameters, FALSE) ]
                              ELSE with_system
                          hardware_invoked == response.requires_hardware_action
                      IN  IF learning_mode /\ env.raises = "learning"
                          THEN Failure(language, lm, brain, system_invoked,
                                       hardware_invoked, "Exception",
                                       reached \o << "interaction_record" >>)
                          ELSE Success(command, language, lm, brain,
                                       system_invoked, hardware_invoked,
                                       with_hardware,
                                       IF learning_mode
                                       THEN reached \o << "interaction_record" >>
                                       ELSE reached)

\* AdvancedJARVIS.process_command: the response it returns (or the exception it
\* raises) and the state it leaves; detected_lang is what detect_language
\* returns for the command.  stages lists the steps of the pipeline the call
\* entered, in the order it entered them
ProcessCommand(command, env, detected_lang) ==
    LET language == IF detected_lang # current_language THEN detected_lang
                    ELSE current_language
        lm == IF detected_lang # current_language
              THEN SetLanguage(lm_language, detected_lang)
              ELSE lm_language
    IN  IF env.raises = "language"
        THEN Failure(current_language, lm_language, BrainUntouched, FALSE,
                     FALSE, "Exception", << "language_detect" >>)
        ELSE IF AnalyzeContextRaises(env)
        THEN Failure(language, lm, BrainUntouched, FALSE, FALSE,
                     IF env.raises = "context" THEN "Exception"
                     ELSE "AttributeError",
                     << "language_detect", "context_build" >>)
        ELSE IF env.raises = "brain"
        THEN Failure(language, lm, BrainUntouched, FALSE, FALSE, "Exception",
                     << "language_detect", "context_build", "classify" >>)
        ELSE Dispatch(command, env, language, lm,
                      BrainProcessCommand(command, AnalyzeContext(language),
                                          env.ai))

\* "shutdown the computer"
ShutdownTheComputer ==
    W_shutdown \o <<32, 116, 104, 101, 32, 99, 111, 109, 112, 117, 116, 101, 114>>

\* the commands given to the orchestrator
Commands == { W_shutdown, W_what, W_status, W_kab,
              W_shutdown \o <<32>> \o W_what, ShutdownTheComputer }

\* language_manager.detect_language(command), tabulated for each command and
\* each active language of the language manager
DetectedLanguage ==
    [ command \in Commands |->
        [ current \in supported_languages |-> DetectLanguage(command, current) ] ]

\* AdvancedJARVIS.switch_language: the languages it accepts
SwitchLanguages == { "english", "hindi", "en", "hi" }

-----------------------------------------------------------------------------
(* Calls of the orchestrator *)

\* process_command(command) while the environment behaves as env: what it
\* does to the assistant
ProcessCommandUpdate(command, env) ==
    /\ commands_processed < MaxCommands
    /\ \E detected_lang \in { DetectedLanguage[command][lm_language] } :
       \E out \in { ProcessCommand(command, env, detected_lang) } :
           /\ commands_processed' = commands_processed + 1
           /\ successful_operations' =
                  IF out.successful THEN successful_operations + 1
                  ELSE successful_operations
           /\ current_language' = out.language
           /\ lm_language' = out.lm
           /\ conversation_history' = out.brain.history
           /\ total_queries' = out.brain.total
           /\ successful_queries' = out.brain.successful
           /\ user_interactions' = out.learning.interactions
           /\ command_frequency' = out.learning.frequency
           /\ recorded' = out.learning.recorded
           /\ call' = [ op |-> "process_command", command |-> command,
                        env |-> env,
                        language_before |-> current_language,
                        stage_raised |-> out.exception # "None",
                        ai_response |-> out.brain.response,
                        ai_requested |-> out.brain.requested,
                        ai_requests |-> out.brain.requests,
                        stages |-> out.stages,
                        system_invoked |-> out.system_invoked,
                        hardware_invoked |-> out.hardware_invoked,
                        raised |-> out.raised,
                        response |-> out.response ]
    /\ UNCHANGED << brain_initialized, brain_language, learning_enabled, user_preferences, now,
                    storageVars, serviceVars >>

\* a call process_command(command) while the environment behaves as env
ProcessCommandCall(command, env) ==
    /\ ProcessCommandUpdate(command, env)
    /\ UNCHANGED threads

\* a call switch_language(language)
SwitchLanguageCall(language) ==
    /\ IF LowerTag(language) \in SwitchLanguages
       THEN /\ current_language' = LowerTag(language)
            /\ lm_language' = SetLanguage(lm_language, LowerTag(language))
       ELSE UNCHANGED << current_language, lm_language >>
    /\ call' = [ op |-> "switch_language", language |-> language ]
    /\ UNCHANGED << commands_processed, successful_operations, brainVars,
                    learningVars,
                    storageVars, serviceVars, threads >>

\* a file that does not exist, and a file holding content
NoFile == [ exists |-> FALSE ]
FileOf(content) == [ exists |-> TRUE, content |-> content ]

\* AdvancedJARVIS.shutdown: the services whose shutdown() it calls
ShutdownServices ==
    { "system_controller", "hardware_controller", "network_manager",
      "learning_engine", "security_manager", "voice_engine" }

\* JARVISBrain.save_conversation_history, called by JARVISBrain.shutdown
SaveConversationHistory(history) == FileOf(history)

\* LearningEngine._save_learning_data, called by LearningEngine.shutdown and
\* by save_learning_data; the file system accepts the write
SaveLearningData(interactions) == FileOf(interactions)

\* LearningEngine._save_learning_data: the pickled models
SaveLearningModels(frequency) == FileOf(frequency)

\* a call shutdown(): every listed service is shut down, the learning data
\* are saved, and the process exits with code 0
ShutdownCall ==
    /\ call.op # "shutdown"
    /\ history_file' =
           IF "brain" \in ShutdownServices
           THEN SaveConversationHistory(conversation_history)
           ELSE history_file
    /\ interactions_file' = SaveLearningData(user_interactions)
    /\ models_file' = SaveLearningModels(command_frequency)
    /\ preferences_file' = FileOf(user_preferences)
    /\ call' = [ op |-> "shutdown", exit_code |-> 0 ]
    /\ UNCHANGED << orchestratorVars, brainVars, learningVars, serviceVars,
                    threads >>

-----------------------------------------------------------------------------
(* Startup: main() and AdvancedJARVIS.initialize_system *)

\* the steps of initialize_system at which a collaborator may raise
StartupSteps ==
    { "display", "integrity", "brain", "system", "hardware", "network",
      "voice", "learning", "gui" }

\* sys.argv[1], "none" when there is no argument
Arguments == { "none", "--gui", "--console", "--help", "--other" }

\* what the environment does during one launch:
\*   argv              the command-line argument
\*   construct_raises  the constructor AdvancedJARVIS() raises
\*   integrity .. voice  what verify_system_integrity() and each initialize()
\*                     return
\*   raises            the step of initialize_system that raises, if any
StartupEnvironments ==
    [ argv : Arguments, construct_raises : BOOLEAN, integrity : BOOLEAN,
      brain : BOOLEAN, system : BOOLEAN, hardware : BOOLEAN, network : BOOLEAN,
      voice : BOOLEAN, raises : StartupSteps \cup { "none" } ]

\* the outcome of initialize_system: what it returns, whether the brain got
\* initialized, and voice_mode afterwards (True at construction)
Initialized(result, brain, voice_mode) ==
    [ result |-> result, brain_initialized |-> brain, voice_mode |-> voice_mode ]

\* initialize_system returning False when the hardware controller fails
InitializeSystemHardwareFatal(env) ==
    IF env.raises \in { "display", "integrity" } THEN Initialized(FALSE, FALSE, TRUE)
    ELSE IF ~env.integrity THEN Initialized(FALSE, FALSE, TRUE)
    ELSE IF env.raises = "brain" \/ ~env.brain THEN Initialized(FALSE, FALSE, TRUE)
    ELSE IF env.raises = "system" \/ ~env.system THEN Initialized(FALSE, TRUE, TRUE)
    ELSE IF env.raises = "hardware" \/ ~env.hardware
    THEN Initialized(FALSE, TRUE, TRUE)
    ELSE IF env.raises \in { "network", "voice" }
    THEN Initialized(FALSE, TRUE, TRUE)
    ELSE IF env.raises \in { "learning", "gui" }
    THEN Initialized(FALSE, TRUE, env.voice)
    ELSE Initialized(TRUE, TRUE, env.voice)

\* AdvancedJARVIS.initialize_system
InitializeSystem(env) ==
    IF env.raises \in { "display", "integrity" } THEN Initialized(FALSE, FALSE, TRUE)
    ELSE IF ~env.integrity THEN Initialized(FALSE, FALSE, TRUE)
    ELSE IF env.raises = "brain" \/ ~env.brain THEN Initialized(FALSE, FALSE, TRUE)
    ELSE IF env.raises = "system" \/ ~env.system THEN Initialized(FALSE, TRUE, TRUE)
    ELSE IF env.raises \in { "hardware", "network", "voice" }
    THEN Initialized(FALSE, TRUE, TRUE)
    ELSE IF env.raises \in { "learning", "gui" }
    THEN Initialized(FALSE, TRUE, env.voice)
    ELSE Initialized(TRUE, TRUE, env.voice)

\* start_gui_mode and start_console_mode: what they return
StartMode(env) == InitializeSystem(env).result

\* main(): the exit code of the process.  sys.exit(1) is reached only from the
\* except clause of main; the value returned by start_gui_mode or
\* start_console_mode is dropped, and a process whose main() returns exits
\* with code 0, as does shutdown() through sys.exit(0).
Main(env) ==
    IF env.construct_raises
    THEN [ exit_code |-> 1, started |-> FALSE, shutdown |-> FALSE ]
    ELSE IF env.argv \in { "--help", "--other" }
    THEN [ exit_code |-> 0, started |-> FALSE, shutdown |-> FALSE ]
    ELSE IF ~StartMode(env)
    THEN [ exit_code |-> 0, started |-> FALSE, shutdown |-> FALSE ]
    ELSE [ exit_code |-> 0, started |-> TRUE, shutdown |-> TRUE ]

\* a launch of the program, not yet run
Launch(env) == [ op |-> "launch", env |-> env ]

\* a call initialize_system() on a fresh assistant
InitializeSystemCall ==
    /\ call.op = "launch"
    /\ ~call.env.construct_raises
    /\ \E out \in { InitializeSystem(call.env) } :
           /\ brain_initialized' = out.brain_initialized
           /\ conversation_history' =
                  IF out.brain_initialized
                  THEN LoadConversationHistory(conversation_history)
                  ELSE conversation_history
           /\ call' = [ op |-> "initialize_system", env |-> call.env,
                        result |-> out.result, voice_mode |-> out.voice_mode ]
    /\ UNCHANGED << orchestratorVars, brain_language, total_queries,
                    successful_queries, learningVars, storageVars, serviceVars, threads >>

\* a run of main() until the process has exited
MainCall ==
    /\ call.op = "launch"
    /\ \E out \in { Main(call.env) } :
           /\ brain_initialized' =
                  ( ~call.env.construct_raises
                    /\ call.env.argv \notin { "--help", "--other" }
                    /\ InitializeSystem(call.env).brain_initialized )
           /\ interactions_file' =
                  IF out.shutdown THEN SaveLearningData(user_interactions)
                  ELSE interactions_file
           /\ models_file' =
                  IF out.shutdown THEN SaveLearningModels(command_frequency)
                  ELSE models_file
           /\ preferences_file' =
                  IF out.shutdown THEN FileOf(user_preferences)
                  ELSE preferences_file
           /\ call' = [ op |-> "main", env |-> call.env,
                        exit_code |-> out.exit_code, started |-> out.started,
                        shutdown |-> out.shutdown ]
    /\ UNCHANGED << orchestratorVars, brain_language, conversation_history,
                    total_queries, successful_queries, learningVars,
                    history_file, serviceVars, threads >>

-----------------------------------------------------------------------------
(* Calls of the brain *)

\* JARVISBrain.initialize: the connection test decides, then the history file
\* is loaded if there is one
BrainInitializeCall(api_ok) ==
    /\ ~brain_initialized
    /\ brain_initialized' = api_ok
    /\ conversation_history' =
           IF api_ok THEN LoadConversationHistory(conversation_history)
           ELSE conversation_history
    /\ call' = [ op |-> "brain_initialize", result |-> api_ok ]
    /\ UNCHANGED << orchestratorVars, brain_language, total_queries,
                    successful_queries, learningVars, storageVars, serviceVars, threads >>

\* a call JARVISBrain.process_command(command, context); the context is None
\* (NoContext) when the caller gives none
BrainProcessCommandCall(command, context, outcome) ==
    /\ total_queries < MaxQueries
    /\ \E out \in { BrainProcessCommand(command, context, outcome) } :
           /\ conversation_history' = out.history
           /\ total_queries' = out.total
           /\ successful_queries' = out.successful
           /\ call' = [ op |-> "brain_process_command", command |-> command,
                        context |-> context,
                        outcome |-> outcome,
                        requested |-> out.requested,
                        requests |-> out.requests,
                        messages |-> out.messages,
                        history_before |-> conversation_history,
                        response |-> out.response ]
    /\ UNCHANGED << orchestratorVars, brain_initialized, brain_language,
                    learningVars,
                    storageVars, serviceVars, threads >>

\* a call JARVISBrain._analyze_intent(command) on the text at hand
AnalyzeIntentCall ==
    /\ call.op = "input"
    /\ call' = [ op |-> "analyze_intent", text |-> call.text,
                 result |-> AnalyzeIntent(call.text) ]
    /\ UNCHANGED << orchestratorVars, brainVars, learningVars,
                    storageVars, serviceVars, threads >>

-----------------------------------------------------------------------------
(* Calls of the learning engine *)

\* a call learn_from_interaction(command, response)
LearnFromInteractionCall(command, response) ==
    /\ \E prior \in PriorLogLengths :
           prior <= now /\ now < prior + MaxInteractionCalls
    /\ \E out \in { LearnFromInteraction(command, response, "None") } :
           /\ user_interactions' = out.interactions
           /\ command_frequency' = out.frequency
           /\ recorded' = out.recorded
    /\ now' = now + 1
    /\ call' = [ op |-> "learn_from_interaction" ]
    /\ UNCHANGED << orchestratorVars, brainVars, learning_enabled, user_preferences,
                    storageVars, serviceVars, threads >>

-----------------------------------------------------------------------------
(* The learning engine under threads: callers of learn_from_interaction and
   the learning loop.  No lock guards user_interactions; a statement that
   reads the list and assigns the attribute is two steps. *)

\* the command recorded by the calls explored
LearningCommand == W_status

\* the response recorded with the command
LearningResponse == [ text |-> AIReply, success |-> TRUE ]

\* timedelta(days=30), in ticks of the clock
AgeLimit == 30

\* the threads calling learn_from_interaction, and the command each records
Appenders == { "caller_1", "caller_2" }
AppenderCommand(t) == IF t = "caller_1" THEN W_status ELSE W_what

\* the thread running _learning_loop
Sweeper == "learning_loop"

\* a thread between calls
Idle == [ pc |-> "idle", local |-> << >> ]

\* the comprehension of _cleanup_old_data: the interactions newer than the
\* cutoff date
FreshInteractions(interactions) ==
    LET Fresh(interaction) == interaction.timestamp > now - AgeLimit
    IN  SelectSeq(interactions, Fresh)

\* learn_from_interaction, up to the limit check: the record is built and
\* appended, and the models are updated
AppendStep(t) ==
    /\ threads[t].pc = "idle"
    /\ learning_enabled
    /\ Len(recorded) < MaxCommands
    /\ \E interaction \in { Interaction(AppenderCommand(t), LearningResponse, "None") } :
           /\ user_interactions' = Append(user_interactions, interaction)
           /\ command_frequency' = UpdateModels(command_frequency, interaction)
           /\ recorded' = Append(recorded, interaction)
    /\ threads' = [ threads EXCEPT ![t] = [ pc |-> "limit", local |-> << >> ] ]
    /\ call' = [ op |-> "append", thread |-> t ]
    /\ UNCHANGED << orchestratorVars, brainVars, learning_enabled, user_preferences, now,
                    storageVars, serviceVars >>

\* learn_from_interaction: the length test and the slice [-10000:]
LimitReadStep(t) ==
    /\ threads[t].pc = "limit"
    /\ threads' = [ threads EXCEPT ![t] =
                        IF Len(user_interactions) > InteractionLimit
                        THEN [ pc |-> "assign",
                               local |-> TrimInteractions(user_interactions) ]
                        ELSE Idle ]
    /\ call' = [ op |-> "limit", thread |-> t ]
    /\ UNCHANGED << orchestratorVars, brainVars, learningVars, storageVars, serviceVars >>

\* learn_from_interaction: the slice is assigned to self.user_interactions
LimitAssignStep(t) ==
    /\ threads[t].pc = "assign"
    /\ user_interactions' = threads[t].local
    /\ threads' = [ threads EXCEPT ![t] = Idle ]
    /\ call' = [ op |-> "limit_assign", thread |-> t ]
    /\ UNCHANGED << orchestratorVars, brainVars, learning_enabled, user_preferences,
                    command_frequency, recorded, now, storageVars, serviceVars >>

\* _cleanup_old_data: the new list is built from the current one
SweepReadStep ==
    /\ threads[Sweeper].pc = "idle"
    /\ threads' = [ threads EXCEPT ![Sweeper] =
                        [ pc |-> "assign",
                          local |-> FreshInteractions(user_interactions) ] ]
    /\ call' = [ op |-> "sweep", thread |-> Sweeper ]
    /\ UNCHANGED << orchestratorVars, brainVars, learningVars, storageVars, serviceVars >>

\* _cleanup_old_data: the new list is assigned to self.user_interactions
SweepAssignStep ==
    /\ threads[Sweeper].pc = "assign"
    /\ user_interactions' = threads[Sweeper].local
    /\ threads' = [ threads EXCEPT ![Sweeper] = Idle ]
    /\ call' = [ op |-> "sweep_assign", thread |-> Sweeper ]
    /\ UNCHANGED << orchestratorVars, brainVars, learning_enabled, user_preferences,
                    command_frequency, recorded, now, storageVars, serviceVars >>

\* the clock advances by the age limit
Tick ==
    /\ now \in PriorLogLengths \cup LoadedLogLengths
    /\ now' = now + AgeLimit
    /\ call' = [ op |-> "tick" ]
    /\ UNCHANGED << orchestratorVars, brainVars, learning_enabled, user_preferences,
                    user_interactions, command_frequency, recorded,
                    storageVars, serviceVars, threads >>

-----------------------------------------------------------------------------
(* The learning loop, the user context and the stored learning data *)

\* a timestamp that datetime.fromisoformat rejects (a missing key reads as '',
\* which it rejects too)
Malformed == -1

\* seq[-n:]
LastOf(seq, n) ==
    IF Len(seq) > n THEN SubSeq(seq, Len(seq) - n + 1, Len(seq)) ELSE seq

\* seq[:n]
FirstOf(seq, n) == IF Len(seq) > n THEN SubSeq(seq, 1, n) ELSE seq

\* [key for key, count in Counter(seq).most_common(n)]: by falling count, equal
\* counts in the order of first occurrence
MostCommon(seq, n) ==
    LET elems == { seq[i] : i \in 1..Len(seq) }
        CountOf(x) == Cardinality({ i \in 1..Len(seq) : seq[i] = x })
        FirstAt(x) == Min({ i \in 1..Len(seq) : seq[i] = x })
        Before(y, x) == \/ CountOf(y) > CountOf(x)
                        \/ CountOf(y) = CountOf(x) /\ FirstAt(y) < FirstAt(x)
        ordered == [ r \in 1..Cardinality(elems) |->
                       CHOOSE x \in elems :
                           Cardinality({ y \in elems : Before(y, x) }) = r - 1 ]
    IN  FirstOf(ordered, n)

\* LearningEngine._analyze_patterns: the preferences it leaves
AnalyzePatterns(preferences, interactions) ==
    IF Len(interactions) < adaptation_threshold
    THEN preferences
    ELSE LET recent_interactions == LastOf(interactions, 100)
             recent_commands == [ i \in 1..Len(recent_interactions) |->
                                    LowerText(recent_interactions[i].command) ]
         IN  [ preferences EXCEPT
                   !.common_commands = MostCommon(recent_commands, 10) ]

\* LearningEngine._update_preferences: the preferences it leaves (no
\* interaction of the model carries feedback)
UpdatePreferences(preferences, interactions) ==
    IF Len(interactions) < adaptation_threshold
    THEN preferences
    ELSE IF Len(interactions) > 50
    THEN LET recent == LastOf(interactions, 50)
             languages == [ i \in 1..Len(recent) |-> recent[i].context.language ]
         IN  [ preferences EXCEPT
                   !.preferred_language = MostCommon(languages, 1)[1] ]
    ELSE preferences

\* LearningEngine._cleanup_old_data: the log it leaves.  fromisoformat raises
\* on a malformed timestamp; the exception leaves the comprehension and is
\* logged, and nothing is assigned
CleanupOldData(interactions) ==
    IF \E i \in 1..Len(interactions) : interactions[i].timestamp = Malformed
    THEN interactions
    ELSE FreshInteractions(interactions)

\* get_user_context recomputing its summary from the log
GetUserContextRecomputed(preferences, interactions) ==
    LET computed == UpdatePreferences(AnalyzePatterns(preferences, interactions),
                                      interactions)
    IN  [ total_interactions |-> Len(interactions),
          common_commands |-> FirstOf(computed.common_commands, 5),
          preferred_language |->
              IF computed.preferred_language = "None" THEN "english"
              ELSE computed.preferred_language ]

\* LearningEngine.get_user_context: the dictionary it returns (the two fields
\* read from the clock, current_session_length and time_of_day_pattern, are
\* left out)
GetUserContext(preferences, interactions) ==
    [ total_interactions |-> Len(interactions),
      common_commands |-> FirstOf(preferences.common_commands, 5),
      preferred_language |->
          IF preferences.preferred_language = "None" THEN "english"
          ELSE preferences.preferred_language ]

\* a call get_user_context()
GetUserContextCall ==
    /\ call' = [ op |-> "get_user_context",
                 result |-> GetUserContext(user_preferences, user_interactions) ]
    /\ UNCHANGED << orchestratorVars, brainVars, learningVars, storageVars,
                    serviceVars, threads >>

\* one iteration of _learning_loop: the patterns are analysed, the
\* preferences updated, the old data cleaned up and the learning data saved
LearningLoopIteration ==
    /\ user_preferences' =
           UpdatePreferences(AnalyzePatterns(user_preferences, user_interactions),
                             user_interactions)
    /\ \E cleaned \in { CleanupOldData(user_interactions) } :
           /\ user_interactions' = cleaned
           /\ interactions_file' = SaveLearningData(cleaned)
    /\ models_file' = SaveLearningModels(command_frequency)
    /\ preferences_file' = FileOf(user_preferences')
    /\ call' = [ op |-> "learning_loop", before |-> user_interactions ]
    /\ UNCHANGED << orchestratorVars, brainVars, learning_enabled,
                    command_frequency, recorded, now, history_file,
                    serviceVars, threads >>

\* a call save_learning_data(): the three files are written
SaveLearningDataCall ==
    /\ interactions_file' = SaveLearningData(user_interactions)
    /\ models_file' = SaveLearningModels(command_frequency)
    /\ preferences_file' = FileOf(user_preferences)
    /\ call' = [ op |-> "save_learning_data" ]
    /\ UNCHANGED << orchestratorVars, brainVars, learningVars, history_file,
                    serviceVars, threads >>

\* LearningEngine._initialize_models: every interaction of the log goes
\* through _update_models
RECURSIVE InitializeModels(_, _)
InitializeModels(frequency, interactions) ==
    IF interactions = << >> THEN frequency
    ELSE InitializeModels(UpdateModels(frequency, Head(interactions)),
                          Tail(interactions))

\* LearningEngine._load_learning_data on a new engine: what it holds after
\* the three files are read (a file that does not exist leaves the value of
\* the constructor)
LoadLearningData ==
    [ interactions |-> IF interactions_file.exists
                       THEN interactions_file.content ELSE << >>,
      preferences |-> IF preferences_file.exists
                      THEN preferences_file.content ELSE NoPreferences,
      frequency |-> IF models_file.exists
                    THEN models_file.content ELSE EmptyBag ]

\* the process is started again: a new LearningEngine is constructed and
\* initialize() loads the files and initializes the models
LearningInitializeCall ==
    /\ BagCardinality(command_frequency) <= MaxFrequency
    /\ \E loaded \in { LoadLearningData } :
           /\ user_interactions' = loaded.interactions
           /\ user_preferences' = loaded.preferences
           /\ command_frequency' =
                  InitializeModels(loaded.frequency, loaded.interactions)
    /\ call' = [ op |-> "learning_initialize" ]
    /\ UNCHANGED << orchestratorVars, brainVars, learning_enabled, recorded,
                    now, storageVars, serviceVars, threads >>

-----------------------------------------------------------------------------
(* The window of JARVISInterface: each command sent starts a thread that runs
   AdvancedJARVIS.process_command; threads holds the commands whose thread has
   not returned yet *)

\* JARVISInterface._send_command: the command typed is shown and a thread is
\* started for it
SendCommand(command) ==
    /\ command # << >>
    /\ commands_processed + Len(threads) < MaxCommands
    /\ threads' = Append(threads, command)
    /\ call' = [ op |-> "send_command", command |-> command ]
    /\ UNCHANGED << orchestratorVars, brainVars, learningVars, storageVars, serviceVars >>

\* JARVISInterface._process_command_thread: process_command returns in the
\* i-th thread started, and the thread ends
ProcessCommandThreadReturn(i, env) ==
    /\ i \in 1..Len(threads)
    /\ ProcessCommandUpdate(threads[i], env)
    /\ threads' = SubSeq(threads, 1, i - 1) \o SubSeq(threads, i + 1, Len(threads))

-----------------------------------------------------------------------------
(* Calls of the language manager *)

\* a text handed to a pure function of the pipeline, not yet processed
InputText(text) == [ op |-> "input", text |-> text ]

\* a call detect_language(text) on the text at hand
DetectLanguageCall ==
    /\ call.op = "input"
    /\ call' = [ op |-> "detect_language", text |-> call.text,
                 lang_before |-> lm_language,
                 result |-> DetectLanguage(call.text, lm_language) ]
    /\ UNCHANGED << orchestratorVars, brainVars, learningVars,
                    storageVars, serviceVars, threads >>

\* a call set_language(language)
SetLanguageCall(language) ==
    /\ call.op = "input"
    /\ lm_language' = SetLanguage(lm_language, language)
    /\ UNCHANGED << current_language, commands_processed, successful_operations,
                    brainVars, learningVars, call,
                    storageVars, serviceVars, threads >>

-----------------------------------------------------------------------------
(* Background loops: SystemController's monitor; the hardware, network and
   security monitors and the learning engine have the same start, stop and
   loop *)

\* the positions of a loop thread: about to test the while condition, inside
\* an iteration (its work and its sleep), returned
LoopPositions == { "test", "body", "done" }

\* the loop threads that have not returned
RunningLoops == { t \in 1..Len(loops) : loops[t] # "done" }

\* `while True:`: the loop without its stop flag
LoopContinuesAlways(active) == TRUE

\* `while self.monitoring_active:`
LoopContinues(active) == active

\* one step of loop thread t: the test of the while condition
LoopTestStep(t) ==
    /\ t \in 1..Len(loops)
    /\ loops[t] = "test"
    /\ loops' = [ loops EXCEPT ![t] = IF LoopContinues(monitoring_active)
                                      THEN "body" ELSE "done" ]
    /\ call' = [ op |-> "loop_test", thread |-> t,
                 active |-> monitoring_active ]
    /\ UNCHANGED << orchestratorVars, brainVars, learningVars, storageVars,
                    monitoring_active, monitor_thread, stopper, securityVars,
                    configVars, threads >>

\* one step of loop thread t: the iteration (the try block, or the except
\* clause, and the sleep that ends both) is over
LoopBodyStep(t) ==
    /\ t \in 1..Len(loops)
    /\ loops[t] = "body"
    /\ loops' = [ loops EXCEPT ![t] = "test" ]
    /\ call' = [ op |-> "loop_body", thread |-> t ]
    /\ UNCHANGED << orchestratorVars, brainVars, learningVars, storageVars,
                    monitoring_active, monitor_thread, stopper, securityVars,
                    configVars, threads >>

\* SystemController._initialize_monitoring
InitializeMonitoring ==
    /\ monitoring_active' = TRUE
    /\ loops' = Append(loops, "test")
    /\ monitor_thread' = Len(loops) + 1

\* a call start_monitoring()
StartMonitoringCall ==
    /\ Len(loops) < MaxLoops
    /\ IF ~monitoring_active
       THEN InitializeMonitoring
       ELSE UNCHANGED << monitoring_active, monitor_thread, loops >>
    /\ call' = [ op |-> "start_monitoring", started |-> ~monitoring_active ]
    /\ UNCHANGED << orchestratorVars, brainVars, learningVars, storageVars,
                    stopper, securityVars, configVars, threads >>

\* a call stop_monitoring() up to its join
StopMonitoringCall ==
    /\ stopper = "idle"
    /\ monitoring_active' = FALSE
    /\ stopper' = IF monitor_thread # 0 THEN "joining" ELSE "idle"
    /\ call' = [ op |-> "stop_monitoring", returned |-> monitor_thread = 0,
                 joined |-> FALSE ]
    /\ UNCHANGED << orchestratorVars, brainVars, learningVars, storageVars,
                    monitor_thread, loops, securityVars, configVars, threads >>

\* monitor_thread.join(timeout=5) returns: the thread has returned, or the
\* five seconds are over
JoinReturn ==
    /\ stopper = "joining"
    /\ stopper' = "idle"
    /\ call' = [ op |-> "stop_monitoring", returned |-> TRUE,
                 joined |-> loops[monitor_thread] = "done" ]
    /\ UNCHANGED << orchestratorVars, brainVars, learningVars, storageVars,
                    monitoring_active, monitor_thread, loops, securityVars,
                    configVars, threads >>

-----------------------------------------------------------------------------
(* SecurityManager.authenticate  (src/core/security_manager.py) *)

\* SecurityManager.max_auth_attempts and lockout_time (seconds)
max_auth_attempts == 3
lockout_time == 300

\* the passwords given to authenticate ("None": no password), and the values
\* of security.password in the configuration ("": the default)
Passwords == { "None", "", "secret", "wrong" }
StoredPasswords == { "", "secret" }

\* authenticate without its lockout
LockedOutNever(attempts, last) == FALSE

\* authenticate: the lockout is in force
LockedOut(attempts, last) ==
    attempts >= max_auth_attempts /\ now - last < lockout_time

\* SecurityManager.authenticate(password) when security.require_authentication
\* is required and security.password is stored: what it returns and the
\* state it leaves
Authenticate(password, required, stored) ==
    IF LockedOut(auth_attempts, last_auth_attempt)
    THEN [ result |-> FALSE, authenticated |-> authenticated,
           attempts |-> auth_attempts, last |-> last_auth_attempt ]
    ELSE LET attempts == IF auth_attempts >= max_auth_attempts THEN 0
                         ELSE auth_attempts
         IN  IF ~required
             THEN [ result |-> TRUE, authenticated |-> TRUE,
                    attempts |-> attempts, last |-> last_auth_attempt ]
             ELSE IF password \notin { "None", "" } /\ password = stored
             THEN [ result |-> TRUE, authenticated |-> TRUE,
                    attempts |-> 0, last |-> last_auth_attempt ]
             ELSE [ result |-> FALSE, authenticated |-> authenticated,
                    attempts |-> attempts + 1, last |-> now ]

\* a call authenticate(password)
AuthenticateCall(password, required, stored) ==
    /\ \E out \in { Authenticate(password, required, stored) } :
           /\ authenticated' = out.authenticated
           /\ auth_attempts' = out.attempts
           /\ last_auth_attempt' = out.last
           /\ call' = [ op |-> "authenticate", password |-> password,
                        required |-> required, stored |-> stored,
                        locked |-> ( auth_attempts >= max_auth_attempts
                                     /\ now - last_auth_attempt < lockout_time ),
                        attempts_before |-> auth_attempts,
                        result |-> out.result ]
    /\ UNCHANGED << orchestratorVars, brainVars, learningVars, storageVars,
                    loopVars, configVars, threads >>

\* seconds pass on the clock
ClockAdvance(seconds) ==
    /\ now + seconds <= MaxClock
    /\ now' = now + seconds
    /\ call' = [ op |-> "clock", seconds |-> seconds ]
    /\ UNCHANGED << orchestratorVars, brainVars, learning_enabled,
                    user_preferences, user_interactions, command_frequency,
                    recorded, storageVars, serviceVars, threads >>

-----------------------------------------------------------------------------
(* ConfigManager  (src/utils/config_manager.py).  dict.copy() is shallow: the
   copy holds the same section dictionaries as the original, and a write into
   a section of one is a write into the section of the other. *)

\* the built-in default configuration, as __init__ builds it (two sections,
\* one key each)
BuiltInConfig ==
    [ ai |-> [ model |-> "gemini" ], interface |-> [ theme |-> "dark" ] ]

ConfigSections == DOMAIN BuiltInConfig

\* the keys given to set, section and name, and the values
ConfigKeys == { << "ai", "model" >>, << "interface", "theme" >> }
ConfigValues == { "custom", "other" }

\* ConfigManager.get('section.name')
ConfigGet(configuration, key) == configuration[key[1]][key[2]]

\* ConfigManager._save_config
SaveConfig(configuration) == FileOf(configuration)

\* reset_to_default(section): config[section] = default_config[section].copy()
ResetSection(section) ==
    [ config |-> [ config EXCEPT ![section] = default_config[section] ],
      shared |-> config_shared \ { section } ]

\* a call set('section.name', value): the section dictionary is written in
\* place and the configuration saved
ConfigSetCall(key, value) ==
    /\ config' = [ config EXCEPT ![key[1]][key[2]] = value ]
    /\ default_config' =
           IF key[1] \in config_shared
           THEN [ default_config EXCEPT ![key[1]][key[2]] = value ]
           ELSE default_config
    /\ config_file' = SaveConfig(config')
    /\ call' = [ op |-> "set", key |-> key, value |-> value ]
    /\ UNCHANGED << orchestratorVars, brainVars, learningVars, storageVars,
                    loopVars, securityVars, config_shared, threads >>

\* a call reset_to_default(section), or reset_to_default() when section is
\* "None": config = default_config.copy()
ResetToDefaultCall(section) ==
    /\ IF section # "None"
       THEN \E out \in { ResetSection(section) } :
                /\ config' = out.config
                /\ config_shared' = out.shared
       ELSE /\ config' = default_config
            /\ config_shared' = ConfigSections
    /\ config_file' = SaveConfig(config')
    /\ call' = [ op |-> "reset_to_default", section |-> section ]
    /\ UNCHANGED << orchestratorVars, brainVars, learningVars, storageVars,
                    loopVars, securityVars, default_config, threads >>

\* the process is started again: ConfigManager() builds default_config anew
\* and _load_config merges the file into it; _merge_configs makes a new
\* dictionary for every section that the file holds
ConfigConstructCall ==
    /\ default_config' = BuiltInConfig
    /\ IF config_file.exists
       THEN /\ config' = [ section \in ConfigSections |->
                             IF section \in DOMAIN config_file.content
                             THEN config_file.content[section]
                             ELSE BuiltInConfig[section] ]
            /\ config_shared' = ConfigSections \ DOMAIN config_file.content
            /\ UNCHANGED config_file
       ELSE /\ config' = BuiltInConfig
            /\ config_shared' = ConfigSections
            /\ config_file' = SaveConfig(BuiltInConfig)
    /\ call' = [ op |-> "config_construct" ]
    /\ UNCHANGED << orchestratorVars, brainVars, learningVars, storageVars,
                    loopVars, securityVars, threads >>

\* the services after construction
InitServices ==
    /\ monitoring_active = FALSE
    /\ monitor_thread = 0
    /\ loops = << >>
    /\ stopper = "idle"
    /\ authenticated = FALSE
    /\ auth_attempts = 0
    /\ last_auth_attempt = 0
    /\ config = BuiltInConfig
    /\ default_config = BuiltInConfig
    /\ config_shared = ConfigSections
    /\ config_file = SaveConfig(BuiltInConfig)

-----------------------------------------------------------------------------
\* the state after construction (the __init__ methods)
InitState ==
    /\ current_language = "english"
    /\ lm_language = "english"
    /\ commands_processed = 0
    /\ successful_operations = 0
    /\ brain_initialized = FALSE
    /\ brain_language = "english"
    /\ conversation_history = <<>>
    /\ total_queries = 0
    /\ successful_queries = 0
    /\ learning_enabled = TRUE
    /\ user_preferences = NoPreferences
    /\ user_interactions = <<>>
    /\ command_frequency = EmptyBag
    /\ recorded = <<>>
    /\ now = 0
    /\ history_file = NoFile
    /\ interactions_file = NoFile
    /\ models_file = NoFile
    /\ preferences_file = NoFile
    /\ InitServices

\* the language manager on its own, given one text
InitLanguage ==
    /\ InitState
    /\ threads = << >>
    /\ call \in { InputText(t) : t \in Texts }

NextLanguage ==
    \/ DetectLanguageCall
    \/ \E language \in LanguageArgs : SetLanguageCall(language)

SpecLanguage == InitLanguage /\ [][NextLanguage]_vars

\* the orchestrator
Init ==
    /\ InitState
    /\ threads = << >>
    /\ call = [ op |-> "none" ]

Next ==
    \/ \E api_ok \in BOOLEAN : BrainInitializeCall(api_ok)
    \/ \E command \in Commands, env \in Environments :
           ProcessCommandCall(command, env)
    \/ \E language \in LanguageArgs : SwitchLanguageCall(language)

Spec == Init /\ [][Next]_vars

\* the brain called directly
BrainInputs == { << W_shutdown, "ok" >>, << W_what, "http_error" >>,
                 << W_kab, "transport_error" >> }

NextBrain ==
    \/ \E api_ok \in BOOLEAN : BrainInitializeCall(api_ok)
    \/ \E input \in BrainInputs : BrainProcessCommandCall(input[1], NoContext, input[2])

SpecBrain == Init /\ [][NextBrain]_vars

\* the intent classifier on its own, given one text
NextIntent == AnalyzeIntentCall

SpecIntent == InitLanguage /\ [][NextIntent]_vars

\* the program launched in each startup environment
InitStartup ==
    /\ InitState
    /\ threads = << >>
    /\ call \in { Launch(env) : env \in StartupEnvironments }

NextStartup == MainCall \/ InitializeSystemCall

SpecStartup == InitStartup /\ [][NextStartup]_vars

\* the log that learn_from_interaction leaves after n calls from an empty log,
\* one clock tick apart
LogAfter(n) ==
    [ i \in 1..n |->
        InteractionAt(LearningCommand, LearningResponse, "None", i - 1, i - 1) ]

\* the command_frequency counter after n such calls
FrequencyAfter(n) ==
    IF n = 0 THEN EmptyBag
    ELSE [ c \in { LowerText(LearningCommand) } |-> n ]

\* the learning engine with two callers and the learning loop running
InitThreads ==
    /\ current_language = "english"
    /\ lm_language = "english"
    /\ commands_processed = 0
    /\ successful_operations = 0
    /\ brain_initialized = FALSE
    /\ brain_language = "english"
    /\ conversation_history = <<>>
    /\ total_queries = 0
    /\ successful_queries = 0
    /\ learning_enabled = TRUE
    /\ user_preferences = NoPreferences
    /\ \E prior \in PriorLogLengths :
           /\ user_interactions = LogAfter(prior)
           /\ command_frequency = FrequencyAfter(prior)
           /\ recorded = << >>
           /\ now = prior
    /\ history_file = NoFile
    /\ interactions_file = NoFile
    /\ models_file = NoFile
    /\ preferences_file = NoFile
    /\ InitServices
    /\ threads = [ t \in Appenders \cup { Sweeper } |-> Idle ]
    /\ call = [ op |-> "none" ]

NextThreads ==
    \/ \E t \in Appenders : AppendStep(t)
    \/ \E t \in Appenders : LimitReadStep(t)
    \/ \E t \in Appenders : LimitAssignStep(t)
    \/ SweepReadStep
    \/ SweepAssignStep
    \/ Tick

SpecThreads == InitThreads /\ [][NextThreads]_vars

\* the window used: commands are sent, and their threads return
NextGui ==
    \/ \E command \in Commands : SendCommand(command)
    \/ \E i \in 1..MaxCommands, env \in Environments :
           ProcessCommandThreadReturn(i, env)

SpecGui == Init /\ [][NextGui]_vars

\* the assistant's language switched and detected, and its brain asked
NextLocalized ==
    \/ \E language \in LanguageArgs : SwitchLanguageCall(language)
    \/ \E command \in { W_what, W_kab }, ai \in AIOutcomes :
           ProcessCommandCall(command, [ ai |-> ai, raises |-> "none",
                                         system_fails |-> FALSE ])
    \/ \E api_ok \in BOOLEAN : BrainInitializeCall(api_ok)
    \/ /\ total_queries < MaxCommands
       /\ \E input \in BrainInputs : BrainProcessCommandCall(input[1], NoContext, input[2])

SpecLocalized == Init /\ [][NextLocalized]_vars

-----------------------------------------------------------------------------
(* The message list sent to the text-generation service *)

\* the contexts the brain is called with: the orchestrator's context record in
\* either language, or none
BrainContexts == { NoContext } \cup { AnalyzeContext(language) : language \in { "english", "hindi" } }

\* the brain answering commands, with and without a context
NextMessages ==
    \/ \E api_ok \in BOOLEAN : BrainInitializeCall(api_ok)
    \/ \E command \in { W_what, W_kab }, context \in BrainContexts :
           BrainProcessCommandCall(command, context, "ok")

SpecMessages == Init /\ [][NextMessages]_vars

-----------------------------------------------------------------------------
(* A component with a background loop, started and stopped at will *)

NextLoops ==
    \/ StartMonitoringCall
    \/ StopMonitoringCall
    \/ JoinReturn
    \/ \E t \in 1..MaxLoops : LoopTestStep(t)
    \/ \E t \in 1..MaxLoops : LoopBodyStep(t)

SpecLoops == Init /\ [][NextLoops]_vars

\* the scheduler runs every loop thread again and again, and the timeout of a
\* join elapses
FairLoops ==
    /\ \A t \in 1..MaxLoops : WF_vars(LoopTestStep(t))
    /\ \A t \in 1..MaxLoops : WF_vars(LoopBodyStep(t))
    /\ WF_vars(JoinReturn)

SpecLoopsFair == SpecLoops /\ FairLoops

-----------------------------------------------------------------------------
(* The security manager asked to authenticate while the clock runs *)

NextSecurity ==
    \/ \E password \in Passwords, required \in BOOLEAN,
          stored \in StoredPasswords :
           AuthenticateCall(password, required, stored)
    \/ \E seconds \in { 100, lockout_time } : ClockAdvance(seconds)

SpecSecurity == Init /\ [][NextSecurity]_vars

-----------------------------------------------------------------------------
(* The configuration manager: values set, sections and the whole reset, the
   process started again *)

NextConfig ==
    \/ \E key \in ConfigKeys, value \in ConfigValues : ConfigSetCall(key, value)
    \/ \E section \in ConfigSections \cup { "None" } : ResetToDefaultCall(section)
    \/ ConfigConstructCall

SpecConfig == Init /\ [][NextConfig]_vars

-----------------------------------------------------------------------------
(* The learning engine over restarts: interactions, the learning loop, the
   user context, saving and loading *)

\* a log loaded from a file in which one record has a malformed timestamp
MalformedLog ==
    << InteractionAt(W_what, LearningResponse, "None", Malformed, 0) >>
    \o LogAfter(adaptation_threshold - 2)

\* the engine has loaded a log and built its models from it
InitEngine ==
    /\ current_language = "english"
    /\ lm_language = "english"
    /\ commands_processed = 0
    /\ successful_operations = 0
    /\ brain_initialized = FALSE
    /\ brain_language = "english"
    /\ conversation_history = <<>>
    /\ total_queries = 0
    /\ successful_queries = 0
    /\ learning_enabled = TRUE
    /\ user_preferences = NoPreferences
    /\ \/ \E prior \in LoadedLogLengths :
              /\ user_interactions = LogAfter(prior)
              /\ now = prior
       \/ /\ user_interactions = MalformedLog
          /\ now = Len(MalformedLog)
    /\ command_frequency = InitializeModels(EmptyBag, user_interactions)
    /\ recorded = << >>
    /\ history_file = NoFile
    /\ interactions_file = NoFile
    /\ models_file = NoFile
    /\ preferences_file = NoFile
    /\ InitServices
    /\ threads = << >>
    /\ call = [ op |-> "none" ]

NextEngine ==
    \/ /\ Len(recorded) < MaxCommands
       /\ \E command \in { W_status, W_what } :
              LearnFromInteractionCall(command, LearningResponse)
    \/ LearningLoopIteration
    \/ GetUserContextCall
    \/ Tick
    \/ SaveLearningDataCall
    \/ LearningInitializeCall

SpecEngine == InitEngine /\ [][NextEngine]_vars

\* the assistant used until it is shut down: commands, direct calls of its
\* brain and of its learning engine, then shutdown
NextShutdown ==
    \/ /\ call.op # "shutdown"
       /\ \E api_ok \in BOOLEAN : BrainInitializeCall(api_ok)
    \/ /\ call.op # "shutdown"
       /\ total_queries < MaxCommands
       /\ \E input \in BrainInputs : BrainProcessCommandCall(input[1], NoContext, input[2])
    \/ /\ call.op # "shutdown"
       /\ Len(recorded) < MaxCommands
       /\ LearnFromInteractionCall(W_status, [ text |-> AIReply, success |-> TRUE ])
    \/ /\ call.op # "shutdown"
       /\ \E env \in { [ ai |-> "ok", raises |-> "none", system_fails |-> FALSE ] } :
              ProcessCommandCall(W_what, env)
    \/ ShutdownCall

SpecShutdown == Init /\ [][NextShutdown]_vars

\* the learning engine on its own, with the log of earlier calls
InitLearning ==
    /\ current_language = "english"
    /\ lm_language = "english"
    /\ commands_processed = 0
    /\ successful_operations = 0
    /\ brain_initialized = FALSE
    /\ brain_language = "english"
    /\ conversation_history = <<>>
    /\ total_queries = 0
    /\ successful_queries = 0
    /\ learning_enabled \in BOOLEAN
    /\ user_preferences = NoPreferences
    /\ \E prior \in PriorLogLengths :
           /\ user_interactions = LogAfter(prior)
           /\ command_frequency = FrequencyAfter(prior)
           /\ recorded = LogAfter(prior)
           /\ now = prior
    /\ history_file = NoFile
    /\ interactions_file = NoFile
    /\ models_file = NoFile
    /\ preferences_file = NoFile
    /\ InitServices
    /\ threads = << >>
    /\ call = [ op |-> "none" ]

NextLearning == LearnFromInteractionCall(LearningCommand, LearningResponse)

SpecLearning == InitLearning /\ [][NextLearning]_vars

-----------------------------------------------------------------------------
(* The claims *)

\* C1: process_command never raises to its caller, whatever stage fails; when
\* a stage raised, the response it returns has success = false and a
\* non-empty text.
C1_NeverRaises ==
    call.op = "process_command" =>
        /\ ~call.raised
        /\ call.response.kind # "None"
        /\ call.stage_raised =>
               /\ call.response.success = FALSE
               /\ call.response.text # << >>

\* a command during which the language detector raised has been answered
C1_Witness ==
    /\ call.op = "process_command"
    /\ call.env.raises = "language"
    /\ call.stage_raised
    /\ ~call.raised
    /\ call.response.success = FALSE

\* C2: starting from an empty history, the conversation history holds at
\* most 20 entries whenever a call of JARVISBrain.process_command has returned.
C2_HistoryAtMost20 == Len(conversation_history) <= 20

\* the eleventh exchange has been recorded and the history holds 20 entries
C2_Witness ==
    /\ call.op = "brain_process_command"
    /\ brain_initialized
    /\ total_queries >= 11
    /\ Len(conversation_history) = 20

\* C3: with learning enabled, after n calls of learn_from_interaction the log
\* holds exactly the most recent min(n, 10000) interactions in append order.
C3_LogIsMostRecent ==
    learning_enabled =>
        LET n == Len(recorded)
            kept == IF n < 10000 THEN n ELSE 10000
        IN  /\ Len(user_interactions) <= 10000
            /\ user_interactions = SubSeq(recorded, n - kept + 1, n)

\* the 10001st interaction has been appended and the oldest one evicted
C3_Witness ==
    /\ learning_enabled
    /\ Len(recorded) = 10001
    /\ Len(user_interactions) = 10000
    /\ user_interactions[1] = recorded[2]
    /\ user_interactions[10000] = recorded[10001]

C5_FailedRequestIsFailure ==
    ( /\ call.op = "brain_process_command"
      /\ call.requested
      /\ call.outcome \in { "http_error", "transport_error" } ) =>
        /\ call.response.text \in { GetText("api_error", brain_language),
                                    GetText("ai_error", brain_language) }
        /\ call.response.success = FALSE
        /\ call.response.confidence = 0

\* the response the AI step produces for a command
AIStep(command, outcome) ==
    ProcessAIResponse(GetAIResponse(outcome, brain_language),
                      CheckSystemCommands(command, AnalyzeIntent(command)),
                      NoContext)

\* C6: when the AI response requires a system action and the system executor
\* fails, the response of process_command keeps the success value of the AI
\* step and carries a non-empty system_result; nothing is raised.
C6_ExecutorFailureKeepsSuccess ==
    ( /\ call.op = "process_command"
      /\ brain_initialized
      /\ call.env.raises = "none"
      /\ call.env.system_fails
      /\ AIStep(call.command, call.env.ai).requires_system_action ) =>
        /\ ~call.raised
        /\ call.response.success = AIStep(call.command, call.env.ai).success
        /\ call.response.system_result # "None"
        /\ call.response.system_result # << >>

\* the categories of the intent classifier in their order of priority
IntentPriority ==
    << [ type |-> "system_control", keywords |-> SystemControlKeywords,
         confidence |-> 9 ],
       [ type |-> "file_operation", keywords |-> FileOperationKeywords,
         confidence |-> 8 ],
       [ type |-> "application_control", keywords |-> ApplicationControlKeywords,
         confidence |-> 8 ],
       [ type |-> "information_request", keywords |-> InformationRequestKeywords,
         confidence |-> 7 ],
       [ type |-> "system_status", keywords |-> SystemStatusKeywords,
         confidence |-> 9 ] >>

\* C8: _analyze_intent returns the first category, in the order system_control
\* (0.9), file_operation (0.8), application_control (0.8), information_request
\* (0.7), system_status (0.9), with a keyword in the lower-cased command, and
\* general (0.5) when there is none; a command containing "shutdown" is
\* system_control (0.9).
C8_FirstCategoryWins ==
    call.op = "analyze_intent" =>
        LET lower == LowerText(call.text)
            matching == { k \in DOMAIN IntentPriority :
                              AnyKeyword(lower, IntentPriority[k].keywords) }
        IN  /\ matching = {} =>
                   /\ call.result.type = "general"
                   /\ call.result.confidence = 5
            /\ matching # {} =>
                   /\ call.result.type = IntentPriority[Min(matching)].type
                   /\ call.result.confidence =
                          IntentPriority[Min(matching)].confidence
            /\ Contains(call.text, W_shutdown) =>
                   /\ call.result.type = "system_control"
                   /\ call.result.confidence = 9

\* a command with "shutdown" and an information-request keyword is classified
C8_Witness ==
    /\ call.op = "analyze_intent"
    /\ Contains(call.text, W_shutdown)
    /\ AnyKeyword(LowerText(call.text), InformationRequestKeywords)
    /\ call.result.type = "system_control"

\* C9: detect_language returns hindi when the Hindi score is strictly greater,
\* english when the English score is strictly greater and the active language
\* on a tie; the result is a supported tag and the active language is unchanged.
C9_DetectByScore ==
    call.op = "detect_language" =>
        LET text == LowerText(call.text)
        IN  /\ HindiScore(text) > EnglishScore(text) => call.result = "hindi"
            /\ EnglishScore(text) > HindiScore(text) => call.result = "english"
            /\ HindiScore(text) = EnglishScore(text) =>
                   call.result = call.lang_before
            /\ call.result \in { "english", "hindi" }
            /\ lm_language = call.lang_before

\* a non-empty text with equal scores is detected while hindi is active
C9_Witness ==
    /\ call.op = "detect_language"
    /\ call.text # << >>
    /\ HindiScore(LowerText(call.text)) = EnglishScore(LowerText(call.text))
    /\ call.lang_before = "hindi"
    /\ call.result = "hindi"

\* C10 as stated: a command with more Devanagari characters than Latin
\* characters is detected as hindi.
C10_MoreDevanagariThanLatin ==
    ( /\ call.op = "detect_language"
      /\ CountDevanagari(call.text) >= 1
      /\ CountDevanagari(call.text) > CountLatin(call.text) ) =>
        call.result = "hindi"

\* C10 amended: a command with more Devanagari characters than the whole
\* English score (Latin characters plus matches of the English word lists)
\* is detected as hindi.
C10_MoreDevanagariThanEnglishScore ==
    ( /\ call.op = "detect_language"
      /\ CountDevanagari(call.text) >= 1
      /\ CountDevanagari(call.text) > EnglishScore(LowerText(call.text)) ) =>
        call.result = "hindi"

\* a text with Latin words and more Devanagari characters than its English
\* score is detected while english is active
C10_Witness ==
    /\ call.op = "detect_language"
    /\ CountLatin(call.text) >= 1
    /\ CountDevanagari(call.text) > EnglishScore(LowerText(call.text))
    /\ call.lang_before = "english"
    /\ call.result = "hindi"

\* C11: for "shutdown the computer" with english active, the intent is
\* system_control (0.9), the AI delegate is called, the response requires the
\* system action system_control, the system executor is invoked with action
\* "shutdown", and the final response carries the AI text and a system_result
\* with the shutdown confirmation.
C11_ShutdownTheComputer ==
    ( /\ call.op = "process_command"
      /\ call.command = ShutdownTheComputer
      /\ call.language_before = "english"
      /\ brain_initialized
      /\ call.env = [ ai |-> "ok", raises |-> "none", system_fails |-> FALSE ] ) =>
        /\ AnalyzeIntent(call.command).type = "system_control"
        /\ AnalyzeIntent(call.command).confidence = 9
        /\ call.ai_requested
        /\ call.ai_response.requires_system_action
        /\ call.ai_response.system_command = "system_control"
        /\ call.system_invoked
        /\ ParameterAction(call.ai_response.parameters) = "shutdown"
        /\ call.response.text = AIReply
        /\ call.response.system_result = ShutdownConfirmation

\* C12: for each command the text-generation service is called at most once;
\* a failed call (non-200 status, timeout, transport error) is not followed by
\* a second request, and its error text is the answer to the command.
C12_AtMostOneRequest ==
    call.op = "brain_process_command" =>
        /\ call.requests <= 1
        /\ (call.requested /\ call.outcome # "ok") =>
               /\ call.requests = 1
               /\ call.response.text = GetAIResponse(call.outcome, brain_language)
               /\ call.response.text # AIReply

\* a command whose request to the service failed has been answered
C12_Witness ==
    /\ call.op = "brain_process_command"
    /\ call.requested
    /\ call.outcome = "transport_error"
    /\ call.requests = 1

\* the content a file yields when read at startup: a missing file is the
\* empty default
Persisted(file) == IF file.exists THEN file.content ELSE << >>

\* C13: when AdvancedJARVIS.shutdown completes, the persisted conversation
\* history equals the in-memory conversation history and the persisted
\* interaction log equals the in-memory interaction log.
C13_ShutdownFlushesHistories ==
    call.op = "shutdown" =>
        /\ Persisted(history_file) = conversation_history
        /\ Persisted(interactions_file) = user_interactions

\* C14: the process exits with code 0 on graceful shutdown and with code 1
\* whenever startup fails: initialize_system returns False in GUI or console
\* mode, or the construction of the assistant raises.
C14_ExitCodes ==
    call.op = "main" =>
        /\ call.shutdown => call.exit_code = 0
        /\ call.env.construct_raises => call.exit_code = 1
        /\ ( /\ ~call.env.construct_raises
             /\ call.env.argv \in { "none", "--gui", "--console" }
             /\ ~InitializeSystem(call.env).result ) => call.exit_code = 1

\* C15: initialize_system returns False exactly when the integrity check, the
\* brain or the system controller fails or an exception escapes; a failure of
\* the hardware controller, the network manager or the voice engine lets it
\* succeed, with voice_mode off when the voice engine failed.
C15_FatalAndDegradedStartup ==
    call.op = "initialize_system" =>
        /\ call.result = FALSE <=>
               \/ ~call.env.integrity
               \/ ~call.env.brain
               \/ ~call.env.system
               \/ call.env.raises # "none"
        /\ call.result => call.voice_mode = call.env.voice

\* initialization has succeeded although the hardware controller, the network
\* manager and the voice engine failed, and voice_mode is off
C15_Witness ==
    /\ call.op = "initialize_system"
    /\ ~call.env.hardware
    /\ ~call.env.network
    /\ ~call.env.voice
    /\ call.result
    /\ ~call.voice_mode

\* C16: every interaction appended by learn_from_interaction while callers
\* and the learning loop interleave is in user_interactions afterwards, unless
\* the cap of 10000 or the age limit of 30 days evicts it.
C16_NoAppendLost ==
    \A i \in 1..Len(recorded) :
        ( /\ recorded[i].timestamp > now - 30
          /\ Len(user_interactions) < 10000 ) =>
            \E j \in 1..Len(user_interactions) : user_interactions[j] = recorded[i]

\* C17: the window never starts a second process_command while an earlier
\* one started from it has not returned: at most one command is in flight.
C17_OneCommandInFlight == Len(threads) <= 1

\* C18: the error text of a failed text-generation call is in the active
\* language of the orchestrator: the Hindi error string when it is hindi, the
\* English one when it is english.
C18_ErrorTextLocalized ==
    ( /\ call.op = "brain_process_command"
      /\ call.requested
      /\ call.outcome # "ok"
      /\ current_language \in { "english", "hindi" } ) =>
        call.response.text =
            GetText(IF call.outcome = "http_error" THEN "api_error" ELSE "ai_error",
                    current_language)

\* the positions of a stage in the stages of a call
PositionsOf(stage, stages) == { i \in 1..Len(stages) : stages[i] = stage }

\* the two recording steps: the brain's append to the conversation history and
\* the learning engine's append to the interaction log
RecordStages == { "history_record", "interaction_record" }

\* the stages of a call without its recording steps
WorkStages(stages) == SelectSeq(stages, LAMBDA stage : stage \notin RecordStages)

\* C19: a process_command in an environment where nothing fails runs language
\* detection, context build, intent classification, response generation and
\* action dispatch in this order and then records; the pair is appended to
\* the conversation history and to the interaction log only after the action
\* dispatch, and the call returns (it does not raise) on success and on
\* failure alike
C19_StagesInOrder ==
    call.op = "process_command" =>
        /\ ~call.raised
        /\ \A i \in 1..Len(call.stages) :
               call.stages[i] \in RecordStages =>
                   \E j \in PositionsOf("dispatch", call.stages) : j < i
        /\ (call.env.raises = "none" /\ call.env.ai = "ok" /\ brain_initialized) =>
               /\ WorkStages(call.stages) =
                      << "language_detect", "context_build", "classify",
                         "generate", "dispatch" >>
               /\ PositionsOf("history_record", call.stages) # { }
               /\ PositionsOf("interaction_record", call.stages) # { }

\* the last n exchanges of a history (2n messages), or the whole history if it
\* is shorter
LastExchanges(history, n) ==
    IF Len(history) > 2 * n
    THEN SubSeq(history, Len(history) - 2 * n + 1, Len(history))
    ELSE history

\* C20: the message list sent to the text-generation service is, in order, the
\* fixed system preamble, the last 5 exchanges of the conversation history (10
\* messages, or the whole history if it is shorter), one context-summary
\* message, and last the user command
C20_MessageList ==
    ( /\ call.op = "brain_process_command"
      /\ call.requested
      /\ call.context.present ) =>
        /\ Len(call.messages) = Len(LastExchanges(call.history_before, 5)) + 3
        /\ call.messages[1] = [ role |-> "system", content |-> << "system_prompt" >> ]
        /\ SubSeq(call.messages, 2, Len(call.messages) - 2) =
               LastExchanges(call.history_before, 5)
        /\ call.messages[Len(call.messages) - 1].role = "system"
        /\ call.messages[Len(call.messages) - 1].content[1] = "context_info"
        /\ call.messages[Len(call.messages)] =
               [ role |-> "user", content |-> call.command ]

\* C21: when a collaborator of the context build (system state, network
\* state, interaction history) is unavailable or raises while the context is
\* built, the context build is not aborted: unless language detection raised
\* before it, the command still reaches the brain, which classifies it
C21_ContextBuildNeverAborts ==
    ( /\ call.op = "process_command"
      /\ call.env.raises \in { "none", "context" } ) =>
        /\ PositionsOf("classify", call.stages) # { }
        /\ call.ai_response.kind # "None"

\* every loop thread has returned
AllLoopsDone == RunningLoops = { }

\* C22: while the stop flag is cleared a loop thread starts no new iteration;
\* if the flag is not set again every loop thread terminates after at most
\* the iteration in progress; and the stop call returns (the join is bounded)
\* even when the loop thread has not returned
C22_StopIsCooperative ==
    /\ [][ ~monitoring_active =>
               \A t \in 1..Len(loops) :
                   loops[t] = "test" => loops'[t] # "body" ]_vars
    /\ []<>( monitoring_active \/ AllLoopsDone )
    /\ ( stopper = "joining" ~> stopper = "idle" )

\* a stop call has returned on the timeout of its join, the flag is still
\* cleared and the loop thread has since returned
C22_Witness ==
    /\ ~monitoring_active
    /\ stopper = "idle"
    /\ monitor_thread # 0
    /\ AllLoopsDone
    /\ call.op = "loop_test"
    /\ ~call.active

\* C27: after any sequence and interleaving of start and stop calls at most
\* one loop thread of the component is running
C27_AtMostOneLoop == Cardinality(RunningLoops) <= 1

\* C23 as stated: every get_user_context returns the summary recomputed from
\* the current log, so that an interaction just recorded already shows in the
\* most frequent commands and in the preferred language
C23_ContextRecomputed ==
    call.op = "get_user_context" =>
        call.result = GetUserContextRecomputed(user_preferences,
                                               user_interactions)

\* C23: get_user_context counts total_interactions on the current log and
\* reads the most frequent commands and the preferred language from
\* user_preferences, which recording an interaction does not touch: the two
\* fields are the same right after learn_from_interaction as right before
\* it; and the call itself changes no state
C23_ContextFromPreferences ==
    [][ /\ call'.op = "learn_from_interaction" =>
               LET before == GetUserContext(user_preferences, user_interactions)
                   after == GetUserContext(user_preferences', user_interactions')
               IN  /\ after.common_commands = before.common_commands
                   /\ after.preferred_language = before.preferred_language
                   /\ after.total_interactions = Len(user_interactions')
        /\ call'.op = "get_user_context" =>
               /\ UNCHANGED << learningVars, storageVars >>
               /\ call'.result.total_interactions = Len(user_interactions) ]_vars

\* an interaction has just been recorded whose command the learning loop has
\* not counted yet: the preferences list other commands only
C23_Witness ==
    /\ call.op = "learn_from_interaction"
    /\ Len(user_interactions) > adaptation_threshold
    /\ user_preferences.common_commands # << >>
    /\ \A i \in 1..Len(user_preferences.common_commands) :
           user_preferences.common_commands[i] #
               LowerText(user_interactions[Len(user_interactions)].command)

\* C24: after a sweep of the learning loop the log holds no record older than
\* 30 days and still holds every record newer than 30 days, also when the log
\* has records with a missing or malformed timestamp
C24_SweepRemovesOld ==
    call.op = "learning_loop" =>
        /\ \A i \in 1..Len(user_interactions) :
               user_interactions[i].timestamp # Malformed =>
                   user_interactions[i].timestamp > now - AgeLimit
        /\ \A j \in 1..Len(call.before) :
               ( /\ call.before[j].timestamp # Malformed
                 /\ call.before[j].timestamp > now - AgeLimit ) =>
                   \E i \in 1..Len(user_interactions) :
                       user_interactions[i] = call.before[j]

\* C28: saving the learning data and initializing an engine from the saved
\* files is a round trip: command_frequency after initialize is the saved
\* counter
C28_SaveInitializeRoundTrip ==
    ( /\ call.op = "learning_initialize"
      /\ models_file.exists ) =>
        command_frequency = models_file.content

\* the entries that the recording of an exchange evicted
Evicted == Len(call.history_before) + 2 - Len(conversation_history)

\* C25 as stated: when recording an exchange pushes the history past its cap
\* of 20 entries, the oldest half of the history is evicted in that step
C25_OldestHalfEvicted ==
    ( /\ call.op = "brain_process_command"
      /\ call.requested
      /\ Len(call.history_before) + 2 > HistoryLimit ) =>
        Evicted >= HistoryLimit \div 2

\* C25: when recording an exchange pushes the history past its cap of 20
\* entries, exactly the entries beyond the cap are evicted, oldest first: the
\* history is the last 20 entries of the old history followed by the exchange
C25_OldestExchangeEvicted ==
    ( /\ call.op = "brain_process_command"
      /\ call.requested
      /\ Len(call.history_before) + 2 > HistoryLimit ) =>
        /\ Evicted = Len(call.history_before) + 2 - HistoryLimit
        /\ conversation_history =
               LastOf(call.history_before, HistoryLimit - 2)
               \o << [ role |-> "user", content |-> call.command ],
                     [ role |-> "assistant", content |-> call.response.text ] >>

\* an exchange has been recorded on a full history
C25_Witness ==
    /\ call.op = "brain_process_command"
    /\ call.requested
    /\ Len(call.history_before) = HistoryLimit
    /\ Len(conversation_history) = HistoryLimit

\* C26: after any sequence of process_command and switch_language calls, with
\* any argument, the orchestrator's current_language equals the language
\* manager's and is one of the supported tags 'english' and 'hindi'
C26_LanguagesInSync ==
    /\ current_language = lm_language
    /\ current_language \in supported_languages

\* C29: with authentication required, auth_attempts never exceeds
\* max_auth_attempts; once max_auth_attempts failed attempts in a row have
\* occurred every authenticate call returns False, even with the correct
\* password, and leaves the counter alone until lockout_time seconds have
\* elapsed since the last failed attempt; the first call after that restarts
\* the counter from 0
C29_Lockout ==
    /\ [](auth_attempts <= max_auth_attempts)
    /\ [][ call'.op = "authenticate" =>
               IF /\ auth_attempts = max_auth_attempts
                  /\ now - last_auth_attempt < lockout_time
               THEN /\ call'.result = FALSE
                    /\ UNCHANGED securityVars
               ELSE auth_attempts = max_auth_attempts =>
                        auth_attempts' =
                            IF call'.result \/ ~call'.required THEN 0 ELSE 1 ]_vars

\* the correct password has been refused during the lockout
C29_Witness ==
    /\ call.op = "authenticate"
    /\ call.required
    /\ call.locked
    /\ call.password = "secret"
    /\ call.stored = "secret"
    /\ ~call.result
    /\ auth_attempts = max_auth_attempts

\* C30: after reset_to_default(), for the whole configuration or for one
\* section, get() returns the built-in default value for every key of the
\* part that was reset, whatever set() calls were made before
C30_ResetGivesBuiltIn ==
    call.op = "reset_to_default" =>
        \A key \in ConfigKeys :
            ( call.section = "None" \/ call.section = key[1] ) =>
                ConfigGet(config, key) = ConfigGet(BuiltInConfig, key)

=============================================================================
